---- MODULE Spec2Model ----
(***************************************************************************)
(* A model of mcp-k8s.py: the Kubernetes configuration bootstrap, the      *)
(* seven MCP tool handlers (each a try/except around calls of the shared   *)
(* CoreV1Api client v1), and the SSE endpoint handle_sse served by one     *)
(* asyncio event loop.                                                     *)
(*                                                                         *)
(* The cluster behind v1 is the environment.  It is modelled by the        *)
(* namespaces, pods and events it holds and by whether the client can      *)
(* reach it; every client call either returns a value or raises.           *)
(*                                                                         *)
(* Python values: a str is a TLA+ string; an Optional value is a set,      *)
(* None being {} and a present value x being {x}; a list is a sequence.    *)
(***************************************************************************)
EXTENDS Naturals, Sequences, FiniteSets, TLC

VARIABLES
    pc,          \* position of the module-level code / the process
    attempts,    \* configuration loaders called so far, in order
    kube_config, \* which loader succeeded: "unset", "kube_config", "incluster", "none"
    v1,          \* TRUE once client.CoreV1Api() has been constructed
    tools,       \* tool names registered with the FastMCP instance
    bootlog,     \* log records written by the module-level code
    reachable,   \* cluster: the API server answers
    namespaces,  \* cluster: existing namespaces
    pods,        \* cluster: <<namespace, name>> -> "absent" | "Pending" | "Running"
    events,      \* cluster: the events, in listing order
    inv,         \* the last tool invocation: [tool, args]
    calls,       \* the client calls that invocation issued, with their outcomes
    ret,         \* the string that invocation returned
    errlog,      \* the records that invocation logged
    conn,        \* event loop: connection -> lifecycle state
    step,        \* event loop: connection -> position inside handle_sse
    inbox,       \* event loop: connection -> requests posted and not yet read
    ended,       \* event loop: connection -> why its stream ended ("" while open)
    released,    \* event loop: connection -> stream resources released
    blocked_by,  \* event loop: the connections whose synchronous call holds the loop thread
    hung         \* event loop: the call holding the loop thread never returns

boot_vars    == <<pc, attempts, kube_config, v1, tools, bootlog>>
cluster_vars == <<reachable, namespaces, pods, events>>
tool_vars    == <<inv, calls, ret, errlog>>
loop_vars    == <<conn, step, inbox, ended, released, blocked_by, hung>>
vars         == <<boot_vars, cluster_vars, tool_vars, loop_vars>>

----------------------------------------------------------------------------
(* Bounds and universes of the model.                                      *)

MaxEvents == 3
NumConns  == 2
MaxInbox  == 1

NamespaceOrder == <<"default", "dev">>
PodOrder       == <<"demo", "web">>
NamespaceNames == {NamespaceOrder[i] : i \in 1..Len(NamespaceOrder)}
PodNames       == {PodOrder[i] : i \in 1..Len(PodOrder)}
Images         == {"nginx"}
\* the namespaces in which the cluster's components record events
EventNamespaces == {"default"}
Conns          == 1..NumConns

----------------------------------------------------------------------------
(* Python values.                                                          *)

None == {}
Some(x) == {x}
Val(o) == CHOOSE x \in o : TRUE

\* str(x) of an Optional[str]: str(None) is "None"
PyStr(o) == IF o = None THEN "None" ELSE Val(o)

\* bool(x) of an Optional[str]: None and "" are falsy
Truthy(o) == o # None /\ o # Some("")

\* a parameter left out of the call takes its declared default
OrDefault(o, dflt) == IF o = None THEN dflt ELSE Val(o)

StartsWith(s, p) == Len(s) >= Len(p) /\ SubSeq(s, 1, Len(p)) = p

RECURSIVE Join(_, _)
\* sep.join(parts)
Join(sep, parts) ==
    IF parts = <<>> THEN ""
    ELSE IF Len(parts) = 1 THEN parts[1]
    ELSE parts[1] \o sep \o Join(sep, Tail(parts))

Ok(op, args, value) == [op |-> op, args |-> args, outcome |-> "ok", value |-> value]
Raised(op, args, exc) == [op |-> op, args |-> args, outcome |-> "raise", exc |-> exc]

ApiException(status, reason) == [type |-> "ApiException", status |-> status, reason |-> reason]
MaxRetryError == [type |-> "MaxRetryError", status |-> "", reason |-> "Connection refused"]
TypeError == [type |-> "TypeError", status |-> "", reason |-> "'NoneType' object is not subscriptable"]

\* str(e)
ExcStr(e) ==
    IF e.type = "ApiException"
    THEN "(" \o e.status \o ")\nReason: " \o e.reason \o "\n"
    ELSE e.reason

----------------------------------------------------------------------------
(* Module-level code, lines 17-33 and the @mcp.tool() decorators.          *)

ToolNames ==
    {"get_pods", "get_pod_logs", "create_pod", "create_namespace",
     "delete_pod", "delete_namespace", "get_pod_events"}

LogRecord(level, text) == [level |-> level, text |-> text]

\* config.load_kube_config(context='kind-mcp-server'), lines 21-25
load_kube_config ==
    /\ pc = "load_kube_config"
    /\ attempts' = Append(attempts, "load_kube_config")
    /\ \E ok \in BOOLEAN :
         IF ok
         THEN /\ kube_config' = "kube_config"
              /\ bootlog' = Append(bootlog, LogRecord("INFO", "kube-config loaded"))
              /\ pc' = "create_client"
         ELSE /\ kube_config' = kube_config
              /\ bootlog' = Append(bootlog, LogRecord("WARNING", "kube-config not loaded"))
              /\ pc' = "load_incluster_config"
    /\ UNCHANGED <<v1, tools, cluster_vars, tool_vars, loop_vars>>

\* a variant in which the second failure ends the process
load_incluster_config_fatal ==
    /\ pc = "load_incluster_config"
    /\ attempts' = Append(attempts, "load_incluster_config")
    /\ \E ok \in BOOLEAN :
         IF ok
         THEN /\ kube_config' = "incluster"
              /\ bootlog' = Append(bootlog, LogRecord("INFO", "in-cluster config loaded"))
              /\ pc' = "create_client"
         ELSE /\ kube_config' = "none"
              /\ bootlog' = Append(bootlog, LogRecord("ERROR", "no Kubernetes config loaded"))
              /\ pc' = "exited"
    /\ UNCHANGED <<v1, tools, cluster_vars, tool_vars, loop_vars>>

\* config.load_incluster_config(), lines 26-30
load_incluster_config ==
    /\ pc = "load_incluster_config"
    /\ attempts' = Append(attempts, "load_incluster_config")
    /\ \E ok \in BOOLEAN :
         IF ok
         THEN /\ kube_config' = "incluster"
              /\ bootlog' = Append(bootlog, LogRecord("INFO", "in-cluster config loaded"))
         ELSE /\ kube_config' = "none"
              /\ bootlog' = Append(bootlog, LogRecord("ERROR", "no Kubernetes config loaded"))
    /\ pc' = "create_client"
    /\ UNCHANGED <<v1, tools, cluster_vars, tool_vars, loop_vars>>

\* v1 = client.CoreV1Api(), line 33
create_client ==
    /\ pc = "create_client"
    /\ v1' = TRUE
    /\ pc' = "register_tools"
    /\ UNCHANGED <<attempts, kube_config, tools, bootlog, cluster_vars, tool_vars, loop_vars>>

\* the seven @mcp.tool() decorators, then uvicorn.run(...)
register_tools ==
    /\ pc = "register_tools"
    /\ tools' = ToolNames
    /\ pc' = "serving"
    /\ UNCHANGED <<attempts, kube_config, v1, bootlog, cluster_vars, tool_vars, loop_vars>>

----------------------------------------------------------------------------
(* The cluster as the client v1 sees it.                                   *)

\* the client was configured and the API server answers
Available == kube_config \in {"kube_config", "incluster"} /\ reachable

\* pod keys in the order the API server lists them (by namespace, then name)
AllKeys ==
    [k \in 1..(Len(NamespaceOrder) * Len(PodOrder)) |->
        <<NamespaceOrder[((k - 1) \div Len(PodOrder)) + 1],
          PodOrder[((k - 1) % Len(PodOrder)) + 1]>>]

V1ContainerState(running) ==
    [running |-> running, terminated |-> None, waiting |-> None]

\* a pod as the client deserialises it; a pod not yet started has no
\* container_statuses, no pod_ip and no node_name
V1Pod(k) ==
    [metadata |-> [name |-> Some(k[2]), namespace |-> Some(k[1]),
                   creation_timestamp |-> Some("2025-01-01 00:00:00+00:00")],
     status |-> [phase |-> Some(pods[k]),
                 container_statuses |->
                     IF pods[k] = "Running"
                     THEN Some(<<[state |-> V1ContainerState(Some("{'started_at': 1}"))]>>)
                     ELSE None,
                 pod_ip |-> IF pods[k] = "Running" THEN Some("10.244.0.5") ELSE None],
     spec |-> [node_name |-> IF pods[k] = "Running" THEN Some("kind-worker") ELSE None]]

RECURSIVE MapPods(_)
MapPods(keys) ==
    IF keys = <<>> THEN <<>> ELSE <<V1Pod(Head(keys))>> \o MapPods(Tail(keys))

InScope(k, scope) == pods[k] # "absent" /\ k[1] \in scope
PodItems(scope) == MapPods(SelectSeq(AllKeys, LAMBDA k : InScope(k, scope)))

\* v1.list_namespaced_pod(namespace=namespace), line 44
list_namespaced_pod(namespace) ==
    IF ~Available
    THEN Raised("list_namespaced_pod", <<namespace>>, MaxRetryError)
    ELSE Ok("list_namespaced_pod", <<namespace>>, PodItems({namespace}))

\* v1.list_pod_for_all_namespaces(), line 46
list_pod_for_all_namespaces ==
    IF ~Available
    THEN Raised("list_pod_for_all_namespaces", <<>>, MaxRetryError)
    ELSE Ok("list_pod_for_all_namespaces", <<>>, PodItems(NamespaceNames))

PodLogLines == <<"starting\n", "ready\n">>

RECURSIVE Concat(_)
Concat(parts) == IF parts = <<>> THEN "" ELSE Head(parts) \o Concat(Tail(parts))

\* the last n lines of the log
TailLines(lines, n) ==
    IF n >= Len(lines) THEN lines ELSE SubSeq(lines, Len(lines) - n + 1, Len(lines))

\* v1.read_namespaced_pod_log(name=, namespace=, tail_lines=), lines 79-83
read_namespaced_pod_log(name, namespace, tail_lines) ==
    LET a == <<name, namespace, tail_lines>> IN
    IF ~Available
    THEN Raised("read_namespaced_pod_log", a, MaxRetryError)
    ELSE IF namespace \notin namespaces \/ pods[<<namespace, name>>] = "absent"
    THEN Raised("read_namespaced_pod_log", a, ApiException("404", "Not Found"))
    ELSE IF pods[<<namespace, name>>] = "Pending"
    THEN Raised("read_namespaced_pod_log", a, ApiException("400", "Bad Request"))
    ELSE Ok("read_namespaced_pod_log", a, Concat(TailLines(PodLogLines, tail_lines)))

\* v1.create_namespaced_pod(namespace=namespace, body=pod_manifest), line 107
create_namespaced_pod(namespace, body) ==
    LET a == <<namespace, body>> IN
    IF ~Available
    THEN Raised("create_namespaced_pod", a, MaxRetryError)
    ELSE IF namespace \notin namespaces
    THEN Raised("create_namespaced_pod", a, ApiException("404", "Not Found"))
    ELSE IF pods[<<namespace, body.metadata.name>>] # "absent"
    THEN Raised("create_namespaced_pod", a, ApiException("409", "Conflict"))
    ELSE Ok("create_namespaced_pod", a, body)

\* v1.create_namespace(body=namespace_manifest), line 126
create_namespace_call(body) ==
    IF ~Available
    THEN Raised("create_namespace", <<body>>, MaxRetryError)
    ELSE IF body.metadata.name \in namespaces
    THEN Raised("create_namespace", <<body>>, ApiException("409", "Conflict"))
    ELSE Ok("create_namespace", <<body>>, body)

\* v1.delete_namespaced_pod(name=pod_name, namespace=namespace), line 141
delete_namespaced_pod(name, namespace) ==
    IF ~Available
    THEN Raised("delete_namespaced_pod", <<name, namespace>>, MaxRetryError)
    ELSE IF namespace \notin namespaces \/ pods[<<namespace, name>>] = "absent"
    THEN Raised("delete_namespaced_pod", <<name, namespace>>, ApiException("404", "Not Found"))
    ELSE Ok("delete_namespaced_pod", <<name, namespace>>, "Success")

\* v1.delete_namespace(name=namespace), line 155
delete_namespace_call(name) ==
    IF ~Available
    THEN Raised("delete_namespace", <<name>>, MaxRetryError)
    ELSE IF name \notin namespaces
    THEN Raised("delete_namespace", <<name>>, ApiException("404", "Not Found"))
    ELSE Ok("delete_namespace", <<name>>, "Success")

\* v1.list_namespaced_event(namespace=namespace), line 169
list_namespaced_event(namespace) ==
    IF ~Available
    THEN Raised("list_namespaced_event", <<namespace>>, MaxRetryError)
    ELSE Ok("list_namespaced_event", <<namespace>>,
            SelectSeq(events, LAMBDA e : e.metadata.namespace = namespace))

ReadOps == {"list_namespaced_pod", "list_pod_for_all_namespaces",
            "read_namespaced_pod_log", "list_namespaced_event"}

\* what the calls of one invocation, in order, leave in the cluster
RECURSIVE NamespacesAfter(_, _)
NamespacesAfter(ns, cs) ==
    IF cs = <<>> THEN ns
    ELSE LET c == Head(cs) IN
         NamespacesAfter(
             IF c.outcome # "ok" THEN ns
             ELSE IF c.op = "create_namespace" THEN ns \cup {c.args[1].metadata.name}
             ELSE IF c.op = "delete_namespace" THEN ns \ {c.args[1]}
             ELSE ns,
             Tail(cs))

RECURSIVE PodsAfter(_, _)
PodsAfter(ps, cs) ==
    IF cs = <<>> THEN ps
    ELSE LET c == Head(cs) IN
         PodsAfter(
             IF c.outcome # "ok" THEN ps
             ELSE IF c.op = "create_namespaced_pod"
             THEN [ps EXCEPT ![<<c.args[1], c.args[2].metadata.name>>] = "Pending"]
             ELSE IF c.op = "delete_namespaced_pod"
             THEN [ps EXCEPT ![<<c.args[2], c.args[1]>>] = "absent"]
             ELSE IF c.op = "delete_namespace"
             THEN [k \in DOMAIN ps |-> IF k[1] = c.args[1] THEN "absent" ELSE ps[k]]
             ELSE ps,
             Tail(cs))

RECURSIVE EventsAfter(_, _)
EventsAfter(es, cs) ==
    IF cs = <<>> THEN es
    ELSE LET c == Head(cs) IN
         EventsAfter(
             IF c.outcome = "ok" /\ c.op = "delete_namespace"
             THEN SelectSeq(es, LAMBDA e : e.metadata.namespace # c.args[1])
             ELSE es,
             Tail(cs))

\* the cluster after the calls cs; read calls leave it as it is
ClusterAfter(cs) ==
    /\ namespaces' = NamespacesAfter(namespaces, cs)
    /\ pods' = PodsAfter(pods, cs)
    /\ events' = EventsAfter(events, cs)
    /\ reachable' = reachable

----------------------------------------------------------------------------
(* The tool handlers, lines 35-191.  X_try is the body of handler X's try  *)
(* block: the client calls it issued, and the value it returned or the     *)
(* exception that left it.  X_except is its except clause.                 *)

DefaultNamespace == "default"
DefaultImage == "nginx"
DefaultTailLines == 50

Return(cs, value) == [calls |-> cs, outcome |-> "return", value |-> value]
Raise(cs, exc) == [calls |-> cs, outcome |-> "raise", exc |-> exc]

\* except Exception as e: logger.error(...); return f"<prefix> {str(e)}"
Caught(logtext, prefix, e) ==
    [outcome |-> "return",
     value |-> prefix \o " " \o ExcStr(e),
     log |-> <<LogRecord("ERROR", logtext \o ": " \o ExcStr(e))>>]

\* str() of a V1ContainerState
ContainerStateStr(state) ==
    "{'running': " \o PyStr(state.running)
        \o ",\n 'terminated': " \o PyStr(state.terminated)
        \o ",\n 'waiting': " \o PyStr(state.waiting) \o "}"

\* the f-string of lines 53-61; container_statuses[0] of None is a TypeError
pod_details(pod) ==
    IF pod.status.container_statuses = None
    THEN [outcome |-> "raise", exc |-> TypeError]
    ELSE [outcome |-> "return",
          value |->
              "\nPod: " \o PyStr(pod.metadata.name)
              \o "\nNamespace: " \o PyStr(pod.metadata.namespace)
              \o "\nStatus: " \o PyStr(pod.status.phase)
              \o "\nContainer Status: "
              \o ContainerStateStr(Val(pod.status.container_statuses)[1].state)
              \o "\nIP: " \o PyStr(pod.status.pod_ip)
              \o "\nNode: " \o PyStr(pod.spec.node_name)
              \o "\nCreated: " \o PyStr(pod.metadata.creation_timestamp)
              \o "\n"]

RECURSIVE pod_info(_, _)
\* the loop of lines 51-62 over items, pod_info being the list built so far
pod_info(items, acc) ==
    IF items = <<>> THEN [outcome |-> "return", value |-> acc]
    ELSE LET d == pod_details(Head(items)) IN
         IF d.outcome = "raise" THEN d
         ELSE pod_info(Tail(items), Append(acc, d.value))

\* a variant without the test of line 48 for an empty listing
get_pods_try_no_empty_test(namespace) ==
    LET c == IF Truthy(namespace)
             THEN list_namespaced_pod(Val(namespace))
             ELSE list_pod_for_all_namespaces
    IN  IF c.outcome = "raise" THEN Raise(<<c>>, c.exc)
        ELSE LET info == pod_info(c.value, <<>>) IN
             IF info.outcome = "raise" THEN Raise(<<c>>, info.exc)
             ELSE Return(<<c>>, Join("\n---\n", info.value))

\* lines 43-64
get_pods_try(namespace) ==
    LET c == IF Truthy(namespace)
             THEN list_namespaced_pod(Val(namespace))
             ELSE list_pod_for_all_namespaces
    IN  IF c.outcome = "raise" THEN Raise(<<c>>, c.exc)
        ELSE IF c.value = <<>> THEN Return(<<c>>, "No pods found.")
        ELSE LET info == pod_info(c.value, <<>>) IN
             IF info.outcome = "raise" THEN Raise(<<c>>, info.exc)
             ELSE Return(<<c>>, Join("\n---\n", info.value))

\* lines 65-67
get_pods_except(e) == Caught("get pods failed", "Error retrieving pods:", e)

\* a variant that calls the client a second time when the first call raised
get_pod_logs_try_retry(pod_name, namespace, tail_lines) ==
    LET c == read_namespaced_pod_log(pod_name, namespace, tail_lines) IN
    IF c.outcome = "raise" THEN Raise(<<c, c>>, c.exc) ELSE Return(<<c>>, c.value)

\* lines 79-84
get_pod_logs_try(pod_name, namespace, tail_lines) ==
    LET c == read_namespaced_pod_log(pod_name, namespace, tail_lines) IN
    IF c.outcome = "raise" THEN Raise(<<c>>, c.exc) ELSE Return(<<c>>, c.value)

\* a variant of the except clause that logs and raises again
get_pod_logs_except_reraise(e) ==
    [outcome |-> "raise",
     log |-> <<LogRecord("ERROR", "get pod logs failed: " \o ExcStr(e))>>]

\* lines 85-87
get_pod_logs_except(e) == Caught("get pod logs failed", "Error retrieving pod logs:", e)

\* lines 99-108
create_pod_try(pod_name, namespace, image) ==
    LET pod_manifest ==
            [apiVersion |-> "v1", kind |-> "Pod",
             metadata |-> [name |-> pod_name, namespace |-> namespace],
             spec |-> [containers |-> <<[name |-> pod_name, image |-> image]>>]]
        c == create_namespaced_pod(namespace, pod_manifest)
    IN  IF c.outcome = "raise" THEN Raise(<<c>>, c.exc)
        ELSE Return(<<c>>, "Pod " \o pod_name \o " created in namespace " \o namespace \o ".")

\* lines 109-111
create_pod_except(e) == Caught("create pod failed", "Error creating pod:", e)

\* lines 121-127
create_namespace_try(namespace) ==
    LET namespace_manifest ==
            [apiVersion |-> "v1", kind |-> "Namespace", metadata |-> [name |-> namespace]]
        c == create_namespace_call(namespace_manifest)
    IN  IF c.outcome = "raise" THEN Raise(<<c>>, c.exc)
        ELSE Return(<<c>>, "Namespace " \o namespace \o " created.")

\* lines 128-130
create_namespace_except(e) == Caught("create namespace failed", "Error creating namespace:", e)

\* a variant whose message has the pod name and the namespace swapped
delete_pod_try_swapped(pod_name, namespace) ==
    LET c == delete_namespaced_pod(pod_name, namespace) IN
    IF c.outcome = "raise" THEN Raise(<<c>>, c.exc)
    ELSE Return(<<c>>, "Pod " \o namespace \o " deleted from namespace " \o pod_name \o ".")

\* lines 141-142
delete_pod_try(pod_name, namespace) ==
    LET c == delete_namespaced_pod(pod_name, namespace) IN
    IF c.outcome = "raise" THEN Raise(<<c>>, c.exc)
    ELSE Return(<<c>>, "Pod " \o pod_name \o " deleted from namespace " \o namespace \o ".")

\* lines 143-145
delete_pod_except(e) == Caught("delete pod failed", "Error deleting pod:", e)

\* lines 155-156
delete_namespace_try(namespace) ==
    LET c == delete_namespace_call(namespace) IN
    IF c.outcome = "raise" THEN Raise(<<c>>, c.exc)
    ELSE Return(<<c>>, "Namespace " \o namespace \o " deleted.")

\* lines 157-159
delete_namespace_except(e) == Caught("delete namespace failed", "Error deleting namespace:", e)

\* the f-string of lines 177-186
event_details(event) ==
    "\n\n\nEvent: " \o PyStr(event.message)
    \o "\nReason: " \o PyStr(event.reason)
    \o "\nType: " \o PyStr(event.type)
    \o "\nSource: " \o PyStr(event.source.component)
    \o "\nFirst Seen: " \o PyStr(event.first_timestamp)
    \o "\nLast Seen: " \o PyStr(event.last_timestamp)
    \o "\n"

RECURSIVE event_info(_, _)
\* the loop of lines 175-187
event_info(pod_events, acc) ==
    IF pod_events = <<>> THEN acc
    ELSE event_info(Tail(pod_events), Append(acc, event_details(Head(pod_events))))

\* a variant of the comprehension without its condition
pod_events_of_unfiltered(items, pod_name) == items

\* the comprehension of line 170
pod_events_of(items, pod_name) ==
    SelectSeq(items, LAMBDA event : event.involved_object.name = pod_name)

\* a variant whose test of line 172 looks at all listed events
get_pod_events_try_tests_all(pod_name, namespace) ==
    LET c == list_namespaced_event(namespace) IN
    IF c.outcome = "raise" THEN Raise(<<c>>, c.exc)
    ELSE LET pod_events == pod_events_of(c.value, pod_name) IN
         IF c.value = <<>> THEN Return(<<c>>, "No events found for this pod.")
         ELSE Return(<<c>>, Join("\n---\n", event_info(pod_events, <<>>)))

\* lines 169-188
get_pod_events_try(pod_name, namespace) ==
    LET c == list_namespaced_event(namespace) IN
    IF c.outcome = "raise" THEN Raise(<<c>>, c.exc)
    ELSE LET pod_events == pod_events_of(c.value, pod_name) IN
         IF pod_events = <<>> THEN Return(<<c>>, "No events found for this pod.")
         ELSE Return(<<c>>, Join("\n---\n", event_info(pod_events, <<>>)))

\* lines 189-191
get_pod_events_except(e) == Caught("get pod events failed", "Error retrieving pod events:", e)

\* no invocation is being served
Idle == [tool |-> "", args |-> <<>>, outcome |-> ""]

\* One invocation of a handler: its try block ran (r), and its except clause
\* (h, applied to the exception) if an exception left the try block.
Invoke(tool, args, r, h) ==
    /\ pc = "serving"
    /\ tool \in tools
    /\ inv = Idle
    /\ calls' = r.calls
    /\ ClusterAfter(r.calls)
    /\ IF r.outcome = "return"
       THEN /\ inv' = [tool |-> tool, args |-> args, outcome |-> "returned"]
            /\ ret' = r.value
            /\ errlog' = <<>>
       ELSE IF h.outcome = "return"
       THEN /\ inv' = [tool |-> tool, args |-> args, outcome |-> "returned"]
            /\ ret' = h.value
            /\ errlog' = h.log
       ELSE /\ inv' = [tool |-> tool, args |-> args, outcome |-> "raised"]
            /\ ret' = ""
            /\ errlog' = h.log
    /\ UNCHANGED <<boot_vars, loop_vars>>

\* the server writes the handler's result to the client and is ready for the
\* next request
write_result ==
    /\ inv # Idle
    /\ inv' = Idle
    /\ calls' = <<>>
    /\ ret' = ""
    /\ errlog' = <<>>
    /\ UNCHANGED <<boot_vars, cluster_vars, loop_vars>>

NamespaceArgs == {Some(n) : n \in NamespaceNames}

\* async def get_pods(namespace: str = None), lines 35-67
get_pods ==
    \E namespace \in NamespaceArgs \cup {None, Some("")} :
        LET r == get_pods_try(namespace) IN
        Invoke("get_pods", [namespace |-> namespace], r,
               IF r.outcome = "raise" THEN get_pods_except(r.exc) ELSE r)

\* async def get_pod_logs(pod_name, namespace='default', tail_lines=50), lines 69-87
get_pod_logs ==
    \E pod_name \in PodNames, ns \in NamespaceArgs \cup {None}, tl \in {None, Some(1)} :
        LET namespace == OrDefault(ns, DefaultNamespace)
            tail_lines == OrDefault(tl, DefaultTailLines)
            r == get_pod_logs_try(pod_name, namespace, tail_lines)
        IN  Invoke("get_pod_logs",
                   [pod_name |-> pod_name, namespace |-> namespace, tail_lines |-> tail_lines],
                   r, IF r.outcome = "raise" THEN get_pod_logs_except(r.exc) ELSE r)

\* async def create_pod(pod_name, namespace='default', image='nginx'), lines 89-111
create_pod ==
    \E pod_name \in PodNames, ns \in NamespaceArgs \cup {None},
       img \in {Some(i) : i \in Images} \cup {None} :
        LET namespace == OrDefault(ns, DefaultNamespace)
            image == OrDefault(img, DefaultImage)
            r == create_pod_try(pod_name, namespace, image)
        IN  Invoke("create_pod",
                   [pod_name |-> pod_name, namespace |-> namespace, image |-> image],
                   r, IF r.outcome = "raise" THEN create_pod_except(r.exc) ELSE r)

\* async def create_namespace(namespace), lines 113-130
create_namespace ==
    \E namespace \in NamespaceNames :
        LET r == create_namespace_try(namespace) IN
        Invoke("create_namespace", [namespace |-> namespace], r,
               IF r.outcome = "raise" THEN create_namespace_except(r.exc) ELSE r)

\* async def delete_pod(pod_name, namespace='default'), lines 132-145
delete_pod ==
    \E pod_name \in PodNames, ns \in NamespaceArgs \cup {None} :
        LET namespace == OrDefault(ns, DefaultNamespace)
            r == delete_pod_try(pod_name, namespace)
        IN  Invoke("delete_pod", [pod_name |-> pod_name, namespace |-> namespace], r,
                   IF r.outcome = "raise" THEN delete_pod_except(r.exc) ELSE r)

\* async def delete_namespace(namespace), lines 147-159
delete_namespace ==
    \E namespace \in NamespaceNames :
        LET r == delete_namespace_try(namespace) IN
        Invoke("delete_namespace", [namespace |-> namespace], r,
               IF r.outcome = "raise" THEN delete_namespace_except(r.exc) ELSE r)

\* async def get_pod_events(pod_name, namespace='default'), lines 160-191
get_pod_events ==
    \E pod_name \in PodNames, ns \in NamespaceArgs \cup {None} :
        LET namespace == OrDefault(ns, DefaultNamespace)
            r == get_pod_events_try(pod_name, namespace)
        IN  Invoke("get_pod_events", [pod_name |-> pod_name, namespace |-> namespace], r,
                   IF r.outcome = "raise" THEN get_pod_events_except(r.exc) ELSE r)

----------------------------------------------------------------------------
(* What the cluster does on its own.                                       *)

\* the kubelet starts a pending pod's container
pod_starts ==
    /\ pc = "serving"
    /\ inv = Idle
    /\ \E k \in DOMAIN pods :
         /\ pods[k] = "Pending"
         /\ pods' = [pods EXCEPT ![k] = "Running"]
    /\ UNCHANGED <<boot_vars, reachable, namespaces, events, tool_vars, loop_vars>>

V1Event(namespace, name, n) ==
    [metadata |-> [namespace |-> namespace],
     involved_object |-> [name |-> name],
     message |-> Some("Successfully assigned " \o namespace \o "/" \o name),
     reason |-> Some("Scheduled"),
     type |-> Some("Normal"),
     source |-> [component |-> Some("default-scheduler")],
     first_timestamp |-> Some("2025-01-01 00:00:0" \o ToString(n) \o "+00:00"),
     last_timestamp |-> None]

\* a cluster component records an event about an object of a namespace
emit_event ==
    /\ pc = "serving"
    /\ inv = Idle
    /\ Len(events) < MaxEvents
    /\ \E namespace \in namespaces \cap EventNamespaces, name \in PodNames :
         events' = Append(events, V1Event(namespace, name, Len(events) + 1))
    /\ UNCHANGED <<boot_vars, reachable, namespaces, pods, tool_vars, loop_vars>>

\* the API server becomes unreachable, or reachable again
cluster_flips ==
    /\ pc = "serving"
    /\ inv = Idle
    /\ reachable' = ~reachable
    /\ UNCHANGED <<boot_vars, namespaces, pods, events, tool_vars, loop_vars>>

----------------------------------------------------------------------------
(* handle_sse, lines 197-207, on the single asyncio event loop that        *)
(* uvicorn.run starts.  A coroutine runs on the loop's one thread from one *)
(* await to the next.  The handlers are coroutines, but none of them       *)
(* awaits its client call (lines 44, 46, 79, 107, 126, 141, 155, 169 call  *)
(* the synchronous client), so the call holds the loop's thread until it   *)
(* returns or raises.                                                      *)

\* no synchronous call holds the loop's thread: a ready coroutine can run
LoopFree == blocked_by = {}

\* Route("/sse", endpoint=handle_sse): handle_sse is called for a new client
handle_sse(c) ==
    /\ pc = "serving"
    /\ LoopFree
    /\ conn[c] = "NONE"
    /\ conn' = [conn EXCEPT ![c] = "CONNECTING"]
    /\ UNCHANGED <<boot_vars, cluster_vars, tool_vars,
                   step, inbox, ended, released, blocked_by, hung>>

\* async with sse.connect_sse(...) as (read_stream, write_stream): entered,
\* and mcp_server.run(...) awaits the first request
connect_sse(c) ==
    /\ LoopFree
    /\ conn[c] = "CONNECTING"
    /\ conn' = [conn EXCEPT ![c] = "STREAMING"]
    /\ step' = [step EXCEPT ![c] = "read"]
    /\ UNCHANGED <<boot_vars, cluster_vars, tool_vars,
                   inbox, ended, released, blocked_by, hung>>

\* Mount("/messages/", app=sse.handle_post_message): the client posts a request
handle_post_message(c) ==
    /\ LoopFree
    /\ conn[c] = "STREAMING"
    /\ ended[c] = ""
    /\ inbox[c] < MaxInbox
    /\ inbox' = [inbox EXCEPT ![c] = @ + 1]
    /\ UNCHANGED <<boot_vars, cluster_vars, tool_vars,
                   conn, step, ended, released, blocked_by, hung>>

\* mcp_server.run: one request is read from read_stream and dispatched
read_request(c) ==
    /\ LoopFree
    /\ conn[c] = "STREAMING"
    /\ ended[c] = ""
    /\ step[c] = "read"
    /\ inbox[c] > 0
    /\ inbox' = [inbox EXCEPT ![c] = @ - 1]
    /\ step' = [step EXCEPT ![c] = "dispatch"]
    /\ UNCHANGED <<boot_vars, cluster_vars, tool_vars,
                   conn, ended, released, blocked_by, hung>>

\* the handler's coroutine runs up to and into its client call, which is a
\* plain blocking call: the thread stays in it, and it may never return
client_call_begins(c) ==
    /\ LoopFree
    /\ conn[c] = "STREAMING"
    /\ ended[c] = ""
    /\ step[c] = "dispatch"
    /\ step' = [step EXCEPT ![c] = "call"]
    /\ blocked_by' = {c}
    /\ \E h \in BOOLEAN : hung' = h
    /\ UNCHANGED <<boot_vars, cluster_vars, tool_vars, conn, inbox, ended, released>>

\* the client call returns or raises; the handler returns its string
client_call_ends(c) ==
    /\ blocked_by = {c}
    /\ ~hung
    /\ step[c] = "call"
    /\ step' = [step EXCEPT ![c] = "write"]
    /\ blocked_by' = {}
    /\ UNCHANGED <<boot_vars, cluster_vars, tool_vars, conn, inbox, ended, released, hung>>

\* mcp_server.run: the response is written to write_stream
write_response(c) ==
    /\ LoopFree
    /\ conn[c] = "STREAMING"
    /\ ended[c] = ""
    /\ step[c] = "write"
    /\ step' = [step EXCEPT ![c] = "read"]
    /\ UNCHANGED <<boot_vars, cluster_vars, tool_vars,
                   conn, inbox, ended, released, blocked_by, hung>>

\* the client closes its connection
client_disconnects(c) ==
    /\ conn[c] = "STREAMING"
    /\ ended[c] = ""
    /\ ended' = [ended EXCEPT ![c] = "disconnect"]
    /\ UNCHANGED <<boot_vars, cluster_vars, tool_vars,
                   conn, step, inbox, released, blocked_by, hung>>

\* the process is told to stop: every open stream is ended
shutdown ==
    /\ pc = "serving"
    /\ pc' = "stopping"
    /\ ended' = [c \in Conns |->
                    IF conn[c] \in {"CONNECTING", "STREAMING"} /\ ended[c] = ""
                    THEN "shutdown" ELSE ended[c]]
    /\ UNCHANGED <<attempts, kube_config, v1, tools, bootlog, cluster_vars, tool_vars,
                   conn, step, inbox, released, blocked_by, hung>>

\* await mcp_server.run(...) ends with an exception
run_raises(c) ==
    /\ LoopFree
    /\ conn[c] = "STREAMING"
    /\ ended[c] = ""
    /\ ended' = [ended EXCEPT ![c] = "exception"]
    /\ UNCHANGED <<boot_vars, cluster_vars, tool_vars,
                   conn, step, inbox, released, blocked_by, hung>>

\* the async with block is left: connect_sse's exit releases the streams
close(c) ==
    /\ LoopFree
    /\ conn[c] = "STREAMING"
    /\ ended[c] # ""
    /\ conn' = [conn EXCEPT ![c] = "CLOSED"]
    /\ step' = [step EXCEPT ![c] = "idle"]
    /\ released' = [released EXCEPT ![c] = TRUE]
    /\ UNCHANGED <<boot_vars, cluster_vars, tool_vars, inbox, ended, blocked_by, hung>>

----------------------------------------------------------------------------
(* Specifications.                                                         *)

Init ==
    /\ pc = "load_kube_config"
    /\ attempts = <<>>
    /\ kube_config = "unset"
    /\ v1 = FALSE
    /\ tools = {}
    /\ bootlog = <<>>
    /\ reachable = TRUE
    /\ namespaces = {DefaultNamespace}
    /\ pods = [k \in NamespaceNames \X PodNames |-> "absent"]
    /\ events = <<>>
    /\ inv = Idle
    /\ calls = <<>>
    /\ ret = ""
    /\ errlog = <<>>
    /\ conn = [c \in Conns |-> "NONE"]
    /\ step = [c \in Conns |-> "idle"]
    /\ inbox = [c \in Conns |-> 0]
    /\ ended = [c \in Conns |-> ""]
    /\ released = [c \in Conns |-> FALSE]
    /\ blocked_by = {}
    /\ hung = FALSE

Boot ==
    \/ load_kube_config
    \/ load_incluster_config
    \/ create_client
    \/ register_tools

\* the tool handlers, one invocation at a time, against a changing cluster
Next ==
    \/ Boot
    \/ get_pods
    \/ get_pod_logs
    \/ create_pod
    \/ create_namespace
    \/ delete_pod
    \/ delete_namespace
    \/ get_pod_events
    \/ write_result
    \/ pod_starts
    \/ emit_event
    \/ cluster_flips

Spec == Init /\ [][Next]_vars

\* the connections served by the event loop
NextLoop ==
    \/ Boot
    \/ \E c \in Conns : handle_sse(c)
    \/ \E c \in Conns : connect_sse(c)
    \/ \E c \in Conns : handle_post_message(c)
    \/ \E c \in Conns : read_request(c)
    \/ \E c \in Conns : client_call_begins(c)
    \/ \E c \in Conns : client_call_ends(c)
    \/ \E c \in Conns : write_response(c)
    \/ \E c \in Conns : client_disconnects(c)
    \/ \E c \in Conns : run_raises(c)
    \/ \E c \in Conns : close(c)
    \/ shutdown

SpecLoop == Init /\ [][NextLoop]_vars

\* the event loop runs every coroutine that stays ready, and a client call that
\* does not hang comes back
FairLoop ==
    /\ SpecLoop
    /\ \A c \in Conns : SF_vars(connect_sse(c))
    /\ \A c \in Conns : SF_vars(close(c))
    /\ \A c \in Conns : WF_vars(client_call_ends(c))

----------------------------------------------------------------------------
(* The claims.                                                             *)

\* the prefix documented for each handler's failure string
DocumentedPrefix(tool) ==
    CASE tool = "get_pods" -> "Error retrieving pods:"
      [] tool = "get_pod_logs" -> "Error retrieving pod logs:"
      [] tool = "create_pod" -> "Error creating pod:"
      [] tool = "create_namespace" -> "Error creating namespace:"
      [] tool = "delete_pod" -> "Error deleting pod:"
      [] tool = "delete_namespace" -> "Error deleting namespace:"
      [] tool = "get_pod_events" -> "Error retrieving pod events:"

SomeCallRaised == \E i \in 1..Len(calls) : calls[i].outcome = "raise"

\* C1: whenever a handler's client call raised, the handler returned (it did
\* not let the exception out) a string that begins with its documented prefix.
C1_RaisedCallGivesPrefixedString ==
    (inv # Idle /\ SomeCallRaised) =>
        /\ inv.outcome = "returned"
        /\ StartsWith(ret, DocumentedPrefix(inv.tool))

\* get_pod_logs on a pod that does not exist: the read call raised 404
C1_Witness ==
    /\ inv.tool = "get_pod_logs"
    /\ Len(calls) = 1
    /\ calls[1].outcome = "raise"
    /\ calls[1].exc.status = "404"
    /\ StartsWith(ret, "Error retrieving pod logs:")

\* the listing call of the get_pods invocation succeeded
PodListingOk ==
    /\ inv.tool = "get_pods"
    /\ calls # <<>>
    /\ calls[1].outcome = "ok"

\* C2: get_pods returns exactly "No pods found." whenever its listing call
\* succeeded with no pods, for a namespace or for the whole cluster.
C2_EmptyListingGivesSentinel ==
    (PodListingOk /\ calls[1].value = <<>>) =>
        /\ inv.outcome = "returned"
        /\ ret = "No pods found."

\* an empty namespace is listed while another namespace holds a pod
C2_Witness ==
    /\ PodListingOk
    /\ inv.args.namespace = Some("dev")
    /\ calls[1].value = <<>>
    /\ \E k \in DOMAIN pods : pods[k] # "absent"
    /\ ret = "No pods found."

\* the event listing call of the get_pod_events invocation succeeded
EventListingOk ==
    /\ inv.tool = "get_pod_events"
    /\ calls # <<>>
    /\ calls[1].outcome = "ok"

\* the listed events about the object called name, in listing order
Matching(items, name) == SelectSeq(items, LAMBDA e : e.involved_object.name = name)

\* C3: get_pod_events returns exactly "No events found for this pod." whenever
\* its listing call succeeded and no listed event is about pod_name, also when
\* the namespace has events about other objects.
C3_NoMatchingEventGivesSentinel ==
    (EventListingOk /\ Matching(calls[1].value, inv.args.pod_name) = <<>>) =>
        /\ inv.outcome = "returned"
        /\ ret = "No events found for this pod."

\* the namespace has events, all of them about another object
C3_Witness ==
    /\ EventListingOk
    /\ calls[1].value # <<>>
    /\ Matching(calls[1].value, inv.args.pod_name) = <<>>
    /\ ret = "No events found for this pod."

\* the step is an invocation of tool with pod_name n and namespace ns
InvokesOnPod(tool, n, ns) ==
    /\ inv = Idle
    /\ inv'.tool = tool
    /\ inv'.args.pod_name = n
    /\ inv'.args.namespace = ns

CreatedText(n, ns) == "Pod " \o n \o " created in namespace " \o ns \o "."
DeletedText(n, ns) == "Pod " \o n \o " deleted from namespace " \o ns \o "."

\* C4 as claimed: on a reachable cluster, for any pod name N and namespace NS,
\* create_pod of a pod that does not exist returns "Pod N created in namespace
\* NS.", and delete_pod of the pod, while it exists, returns "Pod N deleted
\* from namespace NS.".
C4_AsClaimed ==
    [][\A n \in PodNames, ns \in NamespaceNames :
         /\ (Available /\ pods[<<ns, n>>] = "absent" /\ InvokesOnPod("create_pod", n, ns))
                => ret' = CreatedText(n, ns)
         /\ (Available /\ pods[<<ns, n>>] # "absent" /\ InvokesOnPod("delete_pod", n, ns))
                => ret' = DeletedText(n, ns)]_vars

\* C4 amended: on a reachable cluster where namespace NS exists and pod N does
\* not, create_pod returns "Pod N created in namespace NS." and the pod exists;
\* where NS does not exist it returns an "Error creating pod:" string; the pod
\* stays until a delete_pod of it or a delete_namespace of NS; and delete_pod
\* of the pod, on a reachable cluster, returns "Pod N deleted from namespace NS.".
C4_CreateThenDelete ==
    [][\A n \in PodNames, ns \in NamespaceNames :
         /\ (Available /\ ns \in namespaces /\ pods[<<ns, n>>] = "absent"
                /\ InvokesOnPod("create_pod", n, ns))
                => (ret' = CreatedText(n, ns) /\ pods'[<<ns, n>>] # "absent")
         /\ (Available /\ ns \notin namespaces /\ InvokesOnPod("create_pod", n, ns))
                => StartsWith(ret', "Error creating pod:")
         /\ (pods[<<ns, n>>] # "absent" /\ pods'[<<ns, n>>] = "absent")
                => \/ (inv'.tool = "delete_pod" /\ inv'.args.pod_name = n
                          /\ inv'.args.namespace = ns)
                   \/ (inv'.tool = "delete_namespace" /\ inv'.args.namespace = ns)
         /\ (Available /\ pods[<<ns, n>>] # "absent" /\ InvokesOnPod("delete_pod", n, ns))
                => ret' = DeletedText(n, ns)]_vars

\* a pod created in a namespace that was created first has been deleted
C4_Witness ==
    /\ inv.tool = "delete_pod"
    /\ inv.args.pod_name = "demo"
    /\ inv.args.namespace = "dev"
    /\ ret = "Pod demo deleted from namespace dev."


\* connection d has a request waiting to be read by its run loop
HasRequestToRead(d) ==
    /\ conn[d] = "STREAMING"
    /\ ended[d] = ""
    /\ step[d] = "read"
    /\ inbox[d] > 0

\* C5: while one connection's handler waits on its client call, every other
\* connection with a request to read can go on with its read/dispatch/write
\* cycle.
C5_CallYieldsToOtherConnections ==
    \A c \in Conns, d \in Conns :
        (c # d /\ step[c] = "call" /\ HasRequestToRead(d)) => ENABLED read_request(d)

\* the pod block the listing promises for every pod, with or without a
\* container status
ExpectedPodBlock(pod) ==
    "\nPod: " \o PyStr(pod.metadata.name)
    \o "\nNamespace: " \o PyStr(pod.metadata.namespace)
    \o "\nStatus: " \o PyStr(pod.status.phase)
    \o "\nContainer Status: "
    \o (IF pod.status.container_statuses = None THEN "None"
        ELSE ContainerStateStr(Val(pod.status.container_statuses)[1].state))
    \o "\nIP: " \o PyStr(pod.status.pod_ip)
    \o "\nNode: " \o PyStr(pod.spec.node_name)
    \o "\nCreated: " \o PyStr(pod.metadata.creation_timestamp)
    \o "\n"

\* C6: whenever get_pods' listing call succeeded with one or more pods, also
\* pods without a container status, it returns one block per listed pod, in
\* listing order, joined by "\n---\n", and no "Error retrieving pods:" string.
C6_OneBlockPerListedPod ==
    (PodListingOk /\ calls[1].value # <<>>) =>
        /\ inv.outcome = "returned"
        /\ ~StartsWith(ret, "Error retrieving pods:")
        /\ ret = Join("\n---\n",
                      [i \in 1..Len(calls[1].value) |-> ExpectedPodBlock(calls[1].value[i])])

\* the event block the listing promises
ExpectedEventBlock(e) ==
    "\n\n\nEvent: " \o PyStr(e.message)
    \o "\nReason: " \o PyStr(e.reason)
    \o "\nType: " \o PyStr(e.type)
    \o "\nSource: " \o PyStr(e.source.component)
    \o "\nFirst Seen: " \o PyStr(e.first_timestamp)
    \o "\nLast Seen: " \o PyStr(e.last_timestamp)
    \o "\n"

\* C7: whenever get_pod_events' listing call succeeded and some listed event
\* is about pod_name, it returns one block for each listed event about
\* pod_name, in listing order, joined by "\n---\n", and none for the others.
C7_OneBlockPerMatchingEvent ==
    (EventListingOk /\ Matching(calls[1].value, inv.args.pod_name) # <<>>) =>
        LET m == Matching(calls[1].value, inv.args.pod_name) IN
        /\ inv.outcome = "returned"
        /\ ret = Join("\n---\n", [i \in 1..Len(m) |-> ExpectedEventBlock(m[i])])

\* the listing holds two events about the pod and an event about another object
C7_Witness ==
    /\ EventListingOk
    /\ Len(calls[1].value) = 3
    /\ LET m == Matching(calls[1].value, inv.args.pod_name) IN
         /\ Len(m) = 2
         /\ ret = ExpectedEventBlock(m[1]) \o "\n---\n" \o ExpectedEventBlock(m[2])

\* C8: the kube-config is tried first and the in-cluster configuration only
\* after the kube-config failed; when both failed an error was logged and the
\* start-up goes on to create the client and register all tools; every tool
\* call then returns its formatted error string.
C8_BootstrapDegradesToErrorStrings ==
    /\ attempts # <<>> => attempts[1] = "load_kube_config"
    /\ \A i \in 1..Len(attempts) :
         attempts[i] = "load_incluster_config" =>
             /\ i = 2
             /\ bootlog[1].level = "WARNING"
             /\ kube_config # "kube_config"
    /\ kube_config = "kube_config" => attempts = <<"load_kube_config">>
    /\ kube_config = "none" =>
         /\ attempts = <<"load_kube_config", "load_incluster_config">>
         /\ bootlog[Len(bootlog)].level = "ERROR"
         /\ pc \in {"create_client", "register_tools", "serving"}
         /\ pc = "serving" => (v1 /\ tools = ToolNames)
         /\ inv # Idle =>
              /\ inv.outcome = "returned"
              /\ StartsWith(ret, DocumentedPrefix(inv.tool))

\* no configuration could be loaded, the server serves, and a tool call
\* returned its error string
C8_Witness ==
    /\ kube_config = "none"
    /\ pc = "serving"
    /\ inv.tool = "get_pods"
    /\ StartsWith(ret, "Error retrieving pods:")

\* C9: a connection only moves CONNECTING -> STREAMING -> CLOSED, a closed
\* connection stays closed, and once its stream has ended (the client
\* disconnected, the process shuts down, or the run loop raised) the
\* connection eventually is CLOSED with its stream resources released.
C9_ConnectionLifecycle ==
    /\ [][\A c \in Conns :
            conn'[c] # conn[c] =>
                <<conn[c], conn'[c]>> \in {<<"NONE", "CONNECTING">>,
                                          <<"CONNECTING", "STREAMING">>,
                                          <<"STREAMING", "CLOSED">>}]_vars
    /\ \A c \in Conns : (ended[c] # "") ~> (conn[c] = "CLOSED" /\ released[c])

\* the client calls a tool may issue
AllowedOps(tool) ==
    CASE tool = "get_pods" -> {"list_namespaced_pod", "list_pod_for_all_namespaces"}
      [] tool = "get_pod_logs" -> {"read_namespaced_pod_log"}
      [] tool = "create_pod" -> {"create_namespaced_pod"}
      [] tool = "create_namespace" -> {"create_namespace"}
      [] tool = "delete_pod" -> {"delete_namespaced_pod"}
      [] tool = "delete_namespace" -> {"delete_namespace"}
      [] tool = "get_pod_events" -> {"list_namespaced_event"}

\* C10: every invocation issued exactly one client call, whether it succeeded
\* or raised, and the call is the tool's own: a list or read call for get_pods,
\* get_pod_logs and get_pod_events.
C10_ExactlyOneClientCall ==
    inv # Idle =>
        /\ Len(calls) = 1
        /\ calls[1].op \in AllowedOps(inv.tool)
        /\ inv.tool \in {"get_pods", "get_pod_logs", "get_pod_events"} => calls[1].op \in ReadOps

\* a delete_pod whose call raised issued that one call and no other
C10_Witness ==
    /\ inv.tool = "delete_pod"
    /\ Len(calls) = 1
    /\ calls[1].outcome = "raise"
    /\ calls[1].op = "delete_namespaced_pod"

====
